---- MODULE Spec2Model ----
(***************************************************************************)
(* Model of src/src/lib.rs: the application shell (App and its winit       *)
(* ApplicationHandler callbacks), the vertex model (Vertex::new,           *)
(* Vertex::quad) and the surface context (State).                          *)
(*                                                                         *)
(* Three specifications share the module:                                  *)
(*   Spec         the shell, driven by platform events                     *)
(*   SpecQuad     Vertex::quad applied to bounded f32 inputs               *)
(*   SpecSurface  State::new and the State methods on a window             *)
(***************************************************************************)
EXTENDS Integers, Sequences, FiniteSets, TLC

VARIABLES window, exiting, panic, phase, trace,
          qin, qphase, vertices, vertices2,
          caps, winSize, pending, state, stPanic, stLast

vars == <<window, exiting, panic, phase, trace,
          qin, qphase, vertices, vertices2,
          caps, winSize, pending, state, stPanic, stLast>>

shellVars == <<window, exiting, panic, phase, trace>>
quadVars == <<qin, qphase, vertices, vertices2>>
surfaceVars == <<caps, winSize, pending, state, stPanic, stLast>>

(***************************************************************************)
(* Bounds                                                                  *)
(***************************************************************************)
\* length of the recorded history of one run of the shell
MaxEvents == 5
\* finite f32 inputs are the integers -MaxCoord..MaxCoord
MaxCoord == 2
\* length of the capability lists reported by the surface
MaxFormats == 3
\* window width and height range over 0..MaxDim
MaxDim == 1

(***************************************************************************)
(* Application shell                                                       *)
(***************************************************************************)
\* Option<Window>: None is 0, Some(w) is the window's identity w >= 1
NoWindow == 0

NoPanic == ""

QuadIdle ==
    /\ qin = <<>> /\ qphase = "idle" /\ vertices = <<>> /\ vertices2 = <<>>

SurfaceIdle ==
    /\ caps = <<>> /\ winSize = <<0, 0>> /\ pending = <<>> /\ state = <<>>
    /\ stPanic = NoPanic /\ stLast = "-"

EventKinds == {"CloseRequested", "RedrawRequested", "Resized", "CursorMoved"}

\* number of windows the event loop has created so far; the next window
\* gets the next identity
RECURSIVE CountFx(_, _)
CountFx(tr, e) ==
    IF tr = <<>> THEN 0
    ELSE Cardinality({k \in 1..Len(Head(tr).fx) : Head(tr).fx[k] = e})
         + CountFx(Tail(tr), e)

\* App::new: Self::default(), the window is None
App_new == NoWindow

\* App::resumed: create a window (fatal when the platform refuses) and
\* store it; storing drops the window held before, if any
resumed(held, fresh, ok) ==
    IF ~ok
    THEN [window |-> held, fx |-> <<>>, panic |-> "Failed to create window"]
    ELSE [window |-> fresh,
          fx |-> IF held = NoWindow THEN <<"create_window">>
                 ELSE <<"create_window", "drop_window">>,
          panic |-> NoPanic]

\* window_event without the unwrap of the window
window_event_unchecked(held, event) ==
    CASE event = "CloseRequested" ->
           [window |-> held, fx |-> <<"exit">>, panic |-> NoPanic]
      [] event = "RedrawRequested" ->
           [window |-> held, fx |-> <<"pre_present_notify">>, panic |-> NoPanic]
      [] OTHER ->
           [window |-> held, fx |-> <<>>, panic |-> NoPanic]

\* window_event taking the window out of the shell on CloseRequested
window_event_releasing(held, event) ==
    IF held = NoWindow
    THEN [window |-> held, fx |-> <<>>, panic |-> "No window present"]
    ELSE CASE event = "CloseRequested" ->
                [window |-> NoWindow, fx |-> <<"exit", "drop_window">>, panic |-> NoPanic]
           [] event = "RedrawRequested" ->
                [window |-> held, fx |-> <<"pre_present_notify">>, panic |-> NoPanic]
           [] OTHER ->
                [window |-> held, fx |-> <<>>, panic |-> NoPanic]

\* App::window_event: the window is unwrapped first, then the event matched
window_event(held, event) ==
    IF held = NoWindow
    THEN [window |-> held, fx |-> <<>>, panic |-> "No window present"]
    ELSE CASE event = "CloseRequested" ->
                [window |-> held, fx |-> <<"exit">>, panic |-> NoPanic]
           [] event = "RedrawRequested" ->
                [window |-> held, fx |-> <<"pre_present_notify">>, panic |-> NoPanic]
           [] OTHER ->
                [window |-> held, fx |-> <<>>, panic |-> NoPanic]

UnwrapErr == "called Result::unwrap() on an Err value"

\* App::run up to run_app: EventLoop::new().unwrap(). On Err the unwrap
\* panics and the App, moved into run, is dropped (it holds no window yet)
run_start(held, ok) ==
    IF ok
    THEN [window |-> held, fx |-> <<"create_event_loop">>, panic |-> NoPanic]
    ELSE [window |-> held,
          fx |-> IF held = NoWindow THEN <<>> ELSE <<"drop_window">>,
          panic |-> UnwrapErr]

\* App::run ending: run_app returns Ok (how = NoPanic), run_app returns Err
\* and the unwrap panics (how = UnwrapErr), or a callback's panic unwinds
\* through run (how = that panic). Each way drops the local event loop and
\* then the App with the window it holds.
run_exit(held, how) ==
    [window |-> held,
     fx |-> IF held = NoWindow THEN <<"drop_event_loop">>
            ELSE <<"drop_event_loop", "drop_window">>,
     panic |-> how]

Entry(call, event, held, r) ==
    [call |-> call, event |-> event, held |-> held, after |-> r.window,
     fx |-> r.fx, panic |-> r.panic]

Alive == phase = "running" /\ Len(trace) < MaxEvents

\* a callback returned r: the field is updated; a panic unwinds out of
\* run_app and run in the same step
Deliver(call, event, r) ==
    /\ window' = r.window
    /\ panic' = r.panic
    /\ IF r.panic = NoPanic
       THEN /\ trace' = Append(trace, Entry(call, event, window, r))
            /\ phase' = phase
       ELSE /\ trace' = trace \o
                  <<Entry(call, event, window, r),
                    Entry("run_exit", "-", r.window, run_exit(r.window, r.panic))>>
            /\ phase' = "done"

RunStart ==
    /\ phase = "created"
    /\ \E ok \in BOOLEAN :
         LET r == run_start(window, ok) IN
         /\ window' = r.window
         /\ panic' = r.panic
         /\ trace' = Append(trace, Entry("run", "-", window, r))
         /\ phase' = IF ok THEN "running" ELSE "done"
    /\ UNCHANGED exiting
    /\ UNCHANGED <<quadVars, surfaceVars>>

Resumed ==
    /\ Alive
    /\ \E ok \in BOOLEAN :
         Deliver("resumed", "-",
                 resumed(window, CountFx(trace, "create_window") + 1, ok))
    /\ UNCHANGED exiting
    /\ UNCHANGED <<quadVars, surfaceVars>>

WindowEvent ==
    /\ Alive
    /\ \E event \in EventKinds :
         LET r == window_event(window, event) IN
         /\ Deliver("window_event", event, r)
         /\ exiting' = (exiting \/ \E k \in 1..Len(r.fx) : r.fx[k] = "exit")
    /\ UNCHANGED <<quadVars, surfaceVars>>

\* run_app returns Ok once exit was requested
RunReturn ==
    /\ phase = "running"
    /\ exiting
    /\ LET r == run_exit(window, NoPanic) IN
         /\ window' = r.window
         /\ panic' = r.panic
         /\ trace' = Append(trace, Entry("run_exit", "-", window, r))
    /\ phase' = "done"
    /\ UNCHANGED exiting
    /\ UNCHANGED <<quadVars, surfaceVars>>

\* run_app returns Err and run's second unwrap panics
RunAppErr ==
    /\ phase = "running"
    /\ LET r == run_exit(window, UnwrapErr) IN
         /\ window' = r.window
         /\ panic' = r.panic
         /\ trace' = Append(trace, Entry("run_exit", "-", window, r))
    /\ phase' = "done"
    /\ UNCHANGED exiting
    /\ UNCHANGED <<quadVars, surfaceVars>>

\* the state after App::new: run has not been called. Once phase is "done"
\* the App is gone and window keeps the last value of its field.
Init ==
    /\ window = App_new
    /\ exiting = FALSE
    /\ panic = NoPanic
    /\ phase = "created"
    /\ trace = <<>>
    /\ QuadIdle
    /\ SurfaceIdle

Next == RunStart \/ Resumed \/ WindowEvent \/ RunReturn \/ RunAppErr

Spec == Init /\ [][Next]_vars

(***************************************************************************)
(* Vertex model                                                            *)
(***************************************************************************)
\* An f32 is a finite value (here an integer, exactly representable and
\* exactly added while small), an infinity (v is its sign) or a NaN.
F32(n) == [k |-> "fin", v |-> n]
F32Inf(s) == [k |-> "inf", v |-> s]
F32NaN == [k |-> "nan", v |-> 0]

F32Inputs ==
    {F32(n) : n \in -MaxCoord..MaxCoord} \cup {F32Inf(1), F32Inf(-1), F32NaN}

\* f32 addition (IEEE 754): NaN is absorbing, inf + -inf is NaN, an
\* infinity absorbs every finite value; it never traps
F32Add(a, b) ==
    IF a.k = "nan" \/ b.k = "nan" THEN F32NaN
    ELSE IF a.k = "inf" /\ b.k = "inf"
         THEN IF a.v = b.v THEN a ELSE F32NaN
    ELSE IF a.k = "inf" THEN a
    ELSE IF b.k = "inf" THEN b
    ELSE F32(a.v + b.v)

\* f32 == (PartialEq): a NaN equals nothing, itself included
F32Eq(a, b) == a.k # "nan" /\ b.k # "nan" /\ a = b

\* [f32; N] == [f32; N]: element-wise
ArrEq(p, q) == Len(p) = Len(q) /\ \A i \in 1..Len(p) : F32Eq(p[i], q[i])

\* #[derive(PartialEq)] on Vertex: field-wise
VertexEq(a, b) ==
    ArrEq(a.position, b.position) /\ ArrEq(a.color, b.color) /\ ArrEq(a.uv, b.uv)

\* Vec<Vertex> == Vec<Vertex>
VecEq(s, t) == Len(s) = Len(t) /\ \A i \in 1..Len(s) : VertexEq(s[i], t[i])

\* Vertex::new
Vertex_new(x, y, color) ==
    [position |-> <<x, y>>, color |-> color, uv |-> <<F32(1), F32(1)>>]

\* the colour literal [0.0, 0.0, 0.0, 1.0] of Vertex::quad
QuadColor == <<F32(0), F32(0), F32(0), F32(1)>>

\* f32 <= 0.0
F32LeZero(a) == (a.k = "fin" /\ a.v <= 0) \/ (a.k = "inf" /\ a.v < 0)

\* quad dropping a degenerate rectangle
quad_culled(width, height, x, y) ==
    IF F32LeZero(width) \/ F32LeZero(height) THEN <<>>
    ELSE <<Vertex_new(x, y, QuadColor),
           Vertex_new(F32Add(x, width), y, QuadColor),
           Vertex_new(x, F32Add(y, height), QuadColor),
           Vertex_new(F32Add(x, width), y, QuadColor),
           Vertex_new(x, F32Add(y, height), QuadColor),
           Vertex_new(F32Add(x, width), F32Add(y, height), QuadColor)>>

\* quad whose last vertex forgets the height
quad_flat(width, height, x, y) ==
    <<Vertex_new(x, y, QuadColor),
      Vertex_new(F32Add(x, width), y, QuadColor),
      Vertex_new(x, F32Add(y, height), QuadColor),
      Vertex_new(F32Add(x, width), y, QuadColor),
      Vertex_new(x, F32Add(y, height), QuadColor),
      Vertex_new(F32Add(x, width), y, QuadColor)>>

\* quad whose second triangle starts at the bottom left
quad_swapped(width, height, x, y) ==
    <<Vertex_new(x, y, QuadColor),
      Vertex_new(F32Add(x, width), y, QuadColor),
      Vertex_new(x, F32Add(y, height), QuadColor),
      Vertex_new(x, F32Add(y, height), QuadColor),
      Vertex_new(F32Add(x, width), y, QuadColor),
      Vertex_new(F32Add(x, width), F32Add(y, height), QuadColor)>>

\* Vertex::quad
quad(width, height, x, y) ==
    LET vertex1 == Vertex_new(x, y, QuadColor)
        vertex2 == Vertex_new(F32Add(x, width), y, QuadColor)
        vertex3 == Vertex_new(x, F32Add(y, height), QuadColor)
        vertex4 == Vertex_new(F32Add(x, width), y, QuadColor)
        vertex5 == Vertex_new(x, F32Add(y, height), QuadColor)
        vertex6 == Vertex_new(F32Add(x, width), F32Add(y, height), QuadColor)
    IN <<vertex1, vertex2, vertex3, vertex4, vertex5, vertex6>>

\* a caller's first call of Vertex::quad on its inputs
QuadCall ==
    /\ qphase = "input"
    /\ vertices' = quad(qin.width, qin.height, qin.x, qin.y)
    /\ qphase' = "once"
    /\ UNCHANGED <<qin, vertices2>>
    /\ UNCHANGED <<shellVars, surfaceVars>>

\* a second call with the same inputs
QuadCallAgain ==
    /\ qphase = "once"
    /\ vertices2' = quad(qin.width, qin.height, qin.x, qin.y)
    /\ qphase' = "twice"
    /\ UNCHANGED <<qin, vertices>>
    /\ UNCHANGED <<shellVars, surfaceVars>>

ShellIdle ==
    /\ window = App_new /\ exiting = FALSE /\ panic = NoPanic
    /\ phase = "created" /\ trace = <<>>

InitQuad ==
    /\ qin \in [width : F32Inputs, height : F32Inputs, x : F32Inputs, y : F32Inputs]
    /\ qphase = "input"
    /\ vertices = <<>>
    /\ vertices2 = <<>>
    /\ ShellIdle
    /\ SurfaceIdle

NextQuad == QuadCall \/ QuadCallAgain

SpecQuad == InitQuad /\ [][NextQuad]_vars

(***************************************************************************)
(* Surface context                                                         *)
(***************************************************************************)
TextureFormats == {"Bgra8Unorm", "Bgra8UnormSrgb", "Rgba8Unorm", "Rgba8UnormSrgb"}

\* TextureFormat::is_srgb
is_srgb(f) == f \in {"Bgra8UnormSrgb", "Rgba8UnormSrgb"}

RECURSIVE SeqsUpTo(_, _)
SeqsUpTo(S, n) ==
    IF n = 0 THEN {<<>>}
    ELSE LET shorter == SeqsUpTo(S, n - 1) IN
         shorter \cup {Append(q, e) : q \in {r \in shorter : Len(r) = n - 1}, e \in S}

\* what surface.get_capabilities may report
CapsInputs ==
    [formats : SeqsUpTo(TextureFormats, MaxFormats),
     present_modes : {<<>>, <<"Fifo">>},
     alpha_modes : {<<>>, <<"Opaque">>}]

\* winit::dpi::PhysicalSize<u32> as <<width, height>>
Sizes == (0..MaxDim) \X (0..MaxDim)

\* Option<T>: None is <<>>, Some(v) is <<v>>
None == <<>>
Some(v) == <<v>>

\* find with the predicate negated
RECURSIVE FindSrgb_negated(_)
FindSrgb_negated(fs) ==
    IF fs = <<>> THEN None
    ELSE IF ~is_srgb(Head(fs)) THEN Some(Head(fs))
    ELSE FindSrgb_negated(Tail(fs))

\* caps.formats.iter().find(|f| f.is_srgb()).copied()
RECURSIVE FindSrgb(_)
FindSrgb(fs) ==
    IF fs = <<>> THEN None
    ELSE IF is_srgb(Head(fs)) THEN Some(Head(fs))
    ELSE FindSrgb(Tail(fs))

\* Option::unwrap_or
unwrap_or(opt, default) == IF opt = None THEN default ELSE opt[1]

\* the future of State::new suspended at an await, holding the size it read
\* from the window when it started
Suspended(at, size) == [state |-> None, pending |-> Some([at |-> at, size |-> size]),
                        panic |-> NoPanic]

Failed(msg) == [state |-> None, pending |-> None, panic |-> msg]

\* State::new up to its first await: the window's size is read, the
\* instance and the surface are created (unwrap), the adapter is requested
State_new_begin(size, surfaceOk) ==
    IF ~surfaceOk THEN Failed(UnwrapErr)
    ELSE Suspended("request_adapter", size)

\* State::new from the first await to the second: the adapter is unwrapped
\* and the device requested
State_new_adapter(p, adapterOk) ==
    IF ~adapterOk THEN Failed(UnwrapErr)
    ELSE Suspended("request_device", p.size)

\* State::new after the second await: the device is unwrapped, then the
\* format is chosen (the fallback caps.formats[0] is evaluated before
\* unwrap_or is called), then the configuration is built from the size read
\* at the start and the first reported modes
State_new_finish(p, c, deviceOk) ==
    IF ~deviceOk THEN Failed(UnwrapErr)
    ELSE IF c.formats = <<>> THEN Failed("index out of bounds")
    ELSE IF c.present_modes = <<>> THEN Failed("index out of bounds")
    ELSE IF c.alpha_modes = <<>> THEN Failed("index out of bounds")
    ELSE [state |->
            Some([config |->
                    [usage |-> "RENDER_ATTACHMENT",
                     width |-> p.size[1],
                     height |-> p.size[2],
                     present_mode |-> c.present_modes[1],
                     alpha_mode |-> c.alpha_modes[1],
                     view_formats |-> <<>>,
                     desired_maximum_frame_latency |-> 2,
                     format |-> unwrap_or(FindSrgb(c.formats), c.formats[1])],
                  size |-> p.size]),
          pending |-> None,
          panic |-> NoPanic]

\* State::resize: todo!()
State_resize(st, new_size) ==
    [state |-> st, panic |-> "not yet implemented"]

\* State::input: todo!()
State_input(st, event) ==
    [state |-> st, panic |-> "not yet implemented"]

\* State::update: todo!()
State_update(st) ==
    [state |-> st, panic |-> "not yet implemented"]

\* State::render: todo!()
State_render(st) ==
    [state |-> st, panic |-> "not yet implemented"]

\* State::new is polled for the first time
StateNewBegin ==
    /\ state = None /\ pending = None /\ stPanic = NoPanic
    /\ \E surfaceOk \in BOOLEAN :
         LET r == State_new_begin(winSize, surfaceOk) IN
         /\ state' = r.state
         /\ pending' = r.pending
         /\ stPanic' = r.panic
    /\ stLast' = "new_begin"
    /\ UNCHANGED <<caps, winSize>>
    /\ UNCHANGED <<shellVars, quadVars>>

\* request_adapter(..).await completes
StateNewAdapter ==
    /\ pending # None /\ pending[1].at = "request_adapter" /\ stPanic = NoPanic
    /\ \E adapterOk \in BOOLEAN :
         LET r == State_new_adapter(pending[1], adapterOk) IN
         /\ state' = r.state
         /\ pending' = r.pending
         /\ stPanic' = r.panic
    /\ stLast' = "new_adapter"
    /\ UNCHANGED <<caps, winSize>>
    /\ UNCHANGED <<shellVars, quadVars>>

\* request_device(..).await completes and State::new returns
StateNew ==
    /\ pending # None /\ pending[1].at = "request_device" /\ stPanic = NoPanic
    /\ \E deviceOk \in BOOLEAN :
         LET r == State_new_finish(pending[1], caps, deviceOk) IN
         /\ state' = r.state
         /\ pending' = r.pending
         /\ stPanic' = r.panic
    /\ stLast' = "new"
    /\ UNCHANGED <<caps, winSize>>
    /\ UNCHANGED <<shellVars, quadVars>>

\* the platform gives the window another physical size
WindowResize ==
    /\ stPanic = NoPanic
    /\ \E s \in Sizes : s # winSize /\ winSize' = s
    /\ stLast' = "window_resized"
    /\ UNCHANGED <<caps, pending, state, stPanic>>
    /\ UNCHANGED <<shellVars, quadVars>>

\* resize is called with the window's present size
StateResize ==
    /\ state # None /\ stPanic = NoPanic
    /\ LET r == State_resize(state, winSize) IN
         /\ state' = r.state
         /\ stPanic' = r.panic
    /\ stLast' = "resize"
    /\ UNCHANGED <<caps, winSize, pending>>
    /\ UNCHANGED <<shellVars, quadVars>>

StateInput ==
    /\ state # None /\ stPanic = NoPanic
    /\ \E event \in EventKinds :
         LET r == State_input(state, event) IN
         /\ state' = r.state
         /\ stPanic' = r.panic
    /\ stLast' = "input"
    /\ UNCHANGED <<caps, winSize, pending>>
    /\ UNCHANGED <<shellVars, quadVars>>

StateUpdate ==
    /\ state # None /\ stPanic = NoPanic
    /\ LET r == State_update(state) IN
         /\ state' = r.state
         /\ stPanic' = r.panic
    /\ stLast' = "update"
    /\ UNCHANGED <<caps, winSize, pending>>
    /\ UNCHANGED <<shellVars, quadVars>>

StateRender ==
    /\ state # None /\ stPanic = NoPanic
    /\ LET r == State_render(state) IN
         /\ state' = r.state
         /\ stPanic' = r.panic
    /\ stLast' = "render"
    /\ UNCHANGED <<caps, winSize, pending>>
    /\ UNCHANGED <<shellVars, quadVars>>

InitSurface ==
    /\ caps \in CapsInputs
    /\ winSize \in Sizes
    /\ pending = None
    /\ state = None
    /\ stPanic = NoPanic
    /\ stLast = "-"
    /\ ShellIdle
    /\ QuadIdle

NextSurface ==
    StateNewBegin \/ StateNewAdapter \/ StateNew \/ WindowResize \/ StateResize \/ StateInput \/ StateUpdate \/ StateRender

SpecSurface == InitSurface /\ [][NextSurface]_vars

(***************************************************************************)
(* Properties of the application shell (Spec)                              *)
(***************************************************************************)
Calls == 1..Len(trace)

\* the call at position i is window_event with this event, and it returned
Handled(i, event) ==
    /\ trace[i].call = "window_event"
    /\ trace[i].event = event
    /\ trace[i].panic = NoPanic

\* the call at position i had effect e
Did(i, e) == \E k \in 1..Len(trace[i].fx) : trace[i].fx[k] = e

\* the effect e happened this often up to and including call i
Upto(i, e) == CountFx(SubSeq(trace, 1, i), e)

\* C1: the window and the surface context are created exactly once,
\* together, on the first resume, and released exactly once, together, when
\* CloseRequested is processed.
C1_CreatedOnceReleasedOnce ==
    /\ \A i \in Calls :
         (trace[i].call = "resumed" /\ trace[i].panic = NoPanic)
            => Upto(i, "create_window") = 1 /\ Upto(i, "create_surface") = 1
    /\ \A i \in Calls :
         Handled(i, "CloseRequested")
            => /\ Did(i, "drop_window") /\ Did(i, "drop_surface")
               /\ Upto(i, "drop_window") = 1 /\ Upto(i, "drop_surface") = 1
    /\ CountFx(trace, "drop_window") <= 1
    /\ CountFx(trace, "drop_surface") <= 1

\* C2: once CloseRequested has been processed, no later call presents a
\* frame or gives the pre-present notification.
C2_NoFrameAfterClose ==
    \A i \in Calls : \A j \in Calls :
        (i < j /\ Handled(i, "CloseRequested"))
            => ~Did(j, "present") /\ ~Did(j, "pre_present_notify")

\* C4: every RedrawRequested that is handled runs build, layout, draw and
\* present in that order, with the pre-present notification before present.
C4_RedrawRunsFrame ==
    \A i \in Calls :
        Handled(i, "RedrawRequested") =>
            LET fx == trace[i].fx IN
            \E b, l, d, n, p \in 1..Len(fx) :
                /\ fx[b] = "build" /\ fx[l] = "layout" /\ fx[d] = "draw"
                /\ fx[n] = "pre_present_notify" /\ fx[p] = "present"
                /\ b < l /\ l < d /\ d < p /\ n < p

\* C9: a window event of any kind delivered while the shell holds no window
\* aborts with "No window present" and has no effect; no event is handled
\* without a window.
C9_NoWindowPanics ==
    /\ \A i \in Calls :
         (trace[i].call = "window_event" /\ trace[i].held = NoWindow)
            => /\ trace[i].panic = "No window present"
               /\ trace[i].fx = <<>>
               /\ trace[i].after = NoWindow
               /\ i + 1 = Len(trace)
               /\ trace[i + 1].call = "run_exit"
               /\ ~Did(i + 1, "drop_window")
               /\ panic = "No window present"
               /\ phase = "done"
    /\ \A i \in Calls :
         (trace[i].call = "window_event" /\ trace[i].panic = NoPanic)
            => trace[i].held # NoWindow

\* an ignored kind of event was delivered before any resume
C9_Witness ==
    \E i \in Calls :
        /\ trace[i].call = "window_event"
        /\ trace[i].event = "CursorMoved"
        /\ trace[i].held = NoWindow
        /\ trace[i].panic = "No window present"

\* C10: window_event leaves the stored window as it was, an event other than
\* CloseRequested and RedrawRequested has no effect at all, and only resumed
\* changes the stored window.
C10_WindowEventKeepsWindow ==
    /\ \A i \in Calls :
         trace[i].call = "window_event" =>
            /\ trace[i].after = trace[i].held
            /\ trace[i].event \notin {"CloseRequested", "RedrawRequested"}
                  => trace[i].fx = <<>>
    /\ \A i \in Calls :
         trace[i].after # trace[i].held => trace[i].call = "resumed"
    /\ window = IF trace = <<>> THEN App_new ELSE trace[Len(trace)].after
    /\ \A i \in Calls :
         i > 1 => trace[i].held = trace[i - 1].after

\* a resize and a close request were handled with a window held, and the
\* shell still holds it
C10_Witness ==
    /\ \E i \in Calls : Handled(i, "Resized") /\ trace[i].held # NoWindow
    /\ \E i \in Calls : Handled(i, "CloseRequested") /\ trace[i].after # NoWindow
    /\ window # NoWindow

(***************************************************************************)
(* Properties of Vertex::quad (SpecQuad)                                   *)
(***************************************************************************)
\* C6: for all inputs, zero and negative width or height included, quad
\* returns exactly 6 vertices.
C6_SixVertices ==
    /\ qphase # "input" =>
         /\ Len(vertices) = 6
         /\ \A i \in 1..Len(vertices) :
              /\ Len(vertices[i].position) = 2
              /\ Len(vertices[i].color) = 4
              /\ Len(vertices[i].uv) = 2
    /\ qphase = "twice" => Len(vertices2) = 6

\* a rectangle of negative width and zero height gave six vertices
C6_Witness ==
    /\ qphase = "once"
    /\ qin.width = F32(-1) /\ qin.height = F32(0)
    /\ Len(vertices) = 6

\* the positions the claims compare against
TopLeft == <<qin.x, qin.y>>
TopRight == <<F32Add(qin.x, qin.width), qin.y>>
BottomLeft == <<qin.x, F32Add(qin.y, qin.height)>>
BottomRight == <<F32Add(qin.x, qin.width), F32Add(qin.y, qin.height)>>

\* C7 as stated: for all inputs, vertices[0].position == (x, y),
\* vertices[5].position == (x + width, y + height), and two calls with the
\* same inputs return equal vectors (== is f32 equality).
C7_CornersAndDeterminism ==
    /\ qphase # "input" =>
         /\ ArrEq(vertices[1].position, TopLeft)
         /\ ArrEq(vertices[6].position, BottomRight)
    /\ qphase = "twice" => VecEq(vertices, vertices2)

\* none of x, y, x + width, y + height is a NaN
NoNaNCorner ==
    \A i \in 1..2 : TopLeft[i].k # "nan" /\ BottomRight[i].k # "nan"

\* C7 amended: for all inputs of which x, y, x + width and y + height are
\* not NaN, vertices[0].position == (x, y), vertices[5].position ==
\* (x + width, y + height), and two calls with the same inputs return
\* equal vectors.
C7_CornersAndDeterminismNoNaN ==
    NoNaNCorner =>
        /\ qphase # "input" =>
             /\ ArrEq(vertices[1].position, TopLeft)
             /\ ArrEq(vertices[6].position, BottomRight)
        /\ qphase = "twice" => VecEq(vertices, vertices2)

\* quad was called twice on an infinite x with a finite negative height
C7_Witness ==
    /\ qphase = "twice"
    /\ NoNaNCorner
    /\ qin.x = F32Inf(1) /\ qin.width = F32(1)
    /\ qin.y = F32(2) /\ qin.height = F32(-2)
    /\ ArrEq(vertices[6].position, <<F32Inf(1), F32(0)>>)

\* C8: the six vertices are, in this order, top-left, top-right,
\* bottom-left, top-right, bottom-left, bottom-right, each with uv (1, 1).
C8_VertexOrder ==
    qphase # "input" =>
        /\ vertices[1].position = TopLeft
        /\ vertices[2].position = TopRight
        /\ vertices[3].position = BottomLeft
        /\ vertices[4].position = TopRight
        /\ vertices[5].position = BottomLeft
        /\ vertices[6].position = BottomRight
        /\ \A i \in 1..6 : vertices[i].uv = <<F32(1), F32(1)>>

\* a rectangle whose four corners are pairwise different was tessellated
C8_Witness ==
    /\ qphase = "once"
    /\ qin.x = F32(1) /\ qin.y = F32(-1)
    /\ qin.width = F32(2) /\ qin.height = F32(1)
    /\ vertices[4].position = <<F32(3), F32(-1)>>
    /\ vertices[5].position = <<F32(1), F32(0)>>

(***************************************************************************)
(* Properties of the surface context (SpecSurface)                         *)
(***************************************************************************)
\* C3: a frame is rendered only with a configuration whose size is the
\* window's physical size, and a resize leaves the surface context
\* reconfigured to the window's new size.
C3_ConfigFollowsWindow ==
    /\ (stLast = "render" /\ stPanic = NoPanic) =>
          <<state[1].config.width, state[1].config.height>> = winSize
    /\ stLast = "resize" =>
          /\ stPanic = NoPanic
          /\ <<state[1].config.width, state[1].config.height>> = winSize

\* C5: on a non-empty format list, the chosen format is the first SRGB
\* format of the list when it has one, and the first entry when it has none.
C5_FormatSelection ==
    (state # None /\ caps.formats # <<>>) =>
        LET fs == caps.formats
            f == state[1].config.format
        IN IF \E i \in 1..Len(fs) : is_srgb(fs[i])
           THEN /\ is_srgb(f)
                /\ \E i \in 1..Len(fs) :
                     /\ fs[i] = f
                     /\ \A j \in 1..(i - 1) : ~is_srgb(fs[j])
           ELSE f = fs[1]

\* a context was created from a list whose first SRGB format is not its
\* first entry
C5_Witness ==
    /\ state # None
    /\ Len(caps.formats) >= 2
    /\ ~is_srgb(caps.formats[1])
    /\ is_srgb(state[1].config.format)

====
